---- MODULE Spec2Model ----
(***************************************************************************)
(* Model of PyHeapDumper (heap_dumper.py, example.py).                     *)
(*                                                                         *)
(* Text is modelled as a sequence of one-character strings, so that the    *)
(* length of a representation is the number of its characters.  Python     *)
(* values are records that say what the value really is (prim), which      *)
(* classes isinstance() reports for it (isa), and how its hooks behave.    *)
(***************************************************************************)
EXTENDS Integers, Sequences, FiniteSets, TLC

(* ------------------------------ bounds --------------------------------- *)
\* how far past the truncation length the generated inputs go
MaxOver == 2
\* number of distinct content patterns of generated strings / byte strings
MaxSeed == 2
\* number of groups of objects that are live together
MaxLive == 2
\* number of objects created while one snapshot is taken
MaxAlloc == 1
\* number of snapshots the caller takes
MaxCalls == 2

(* ------------------------- program constants --------------------------- *)
\* value[:1000], value[:1000], list(value)[:1000]
TruncLen == 1000

Min(a, b) == IF a < b THEN a ELSE b

(* ------------------------------ text ----------------------------------- *)
DigitChar == <<"0", "1", "2", "3", "4", "5", "6", "7", "8", "9">>
HexChar == <<"0", "1", "2", "3", "4", "5", "6", "7", "8", "9", "a", "b", "c", "d", "e", "f">>

RECURSIVE Digits(_)
Digits(n) == IF n < 10 THEN <<DigitChar[n + 1]>>
             ELSE Digits(n \div 10) \o <<DigitChar[(n % 10) + 1]>>

\* str(int)
IntStr(n) == IF n < 0 THEN <<"-">> \o Digits(0 - n) ELSE Digits(n)

RECURSIVE HexDigits(_)
HexDigits(n) == IF n < 16 THEN <<HexChar[n + 1]>>
                ELSE HexDigits(n \div 16) \o <<HexChar[(n % 16) + 1]>>

\* concatenation of f[lo] .. f[hi], by halving (f is a sequence of texts)
RECURSIVE Concat(_, _, _)
Concat(f, lo, hi) ==
    IF lo > hi THEN <<>>
    ELSE IF lo = hi THEN f[lo]
    ELSE LET mid == (lo + hi) \div 2
         IN Concat(f, lo, mid) \o Concat(f, mid + 1, hi)

\* s[:1000]
SliceMut(s) == s
Slice(s) == SubSeq(s, 1, Min(Len(s), TruncLen))

\* str(list_of_int): "[a, b, c]"
ListStr(xs) ==
    <<"[">> \o
    Concat([i \in 1..Len(xs) |->
              IF i = 1 THEN IntStr(xs[i]) ELSE <<",", " ">> \o IntStr(xs[i])],
           1, Len(xs))
    \o <<"]">>

\* repr of one byte inside a bytes literal delimited by quote q
ByteRepr(b, q) ==
    IF b = 92 THEN <<"\\", "\\">>
    ELSE IF b = 9 THEN <<"\\", "t">>
    ELSE IF b = 10 THEN <<"\\", "n">>
    ELSE IF b = 13 THEN <<"\\", "r">>
    ELSE IF b = 39 THEN (IF q = "'" THEN <<"\\", "'">> ELSE <<"'">>)
    ELSE IF b = 34 THEN <<"\"">>
    ELSE IF b = 65 THEN <<"A">>
    ELSE IF b = 66 THEN <<"B">>
    ELSE <<"\\", "x", HexChar[(b \div 16) + 1], HexChar[(b % 16) + 1]>>

\* str(bytes) == repr(bytes): b'...' (b"..." when it holds ' and no ")
BytesStr(bs) ==
    LET hasS == \E i \in 1..Len(bs) : bs[i] = 39
        hasD == \E i \in 1..Len(bs) : bs[i] = 34
        q == IF hasS /\ ~hasD THEN "\"" ELSE "'"
    IN <<"b", q>> \o
       Concat([i \in 1..Len(bs) |-> ByteRepr(bs[i], q)], 1, Len(bs))
       \o <<q>>

\* str(memoryview) == "<memory at 0x...>"
MemStr(addr) ==
    <<"<", "m", "e", "m", "o", "r", "y", " ", "a", "t", " ", "0", "x">>
    \o HexDigits(addr) \o <<">">>

STRING_ACCESS_ERROR ==
    <<"[", "S", "T", "R", "I", "N", "G", "_", "A", "C", "C", "E", "S", "S", "_", "E", "R", "R", "O", "R", "]">>
BYTES_ACCESS_ERROR ==
    <<"[", "B", "Y", "T", "E", "S", "_", "A", "C", "C", "E", "S", "S", "_", "E", "R", "R", "O", "R", "]">>
NUMBER_CONVERT_ERROR ==
    <<"[", "N", "U", "M", "B", "E", "R", "_", "C", "O", "N", "V", "E", "R", "T", "_", "E", "R", "R", "O", "R", "]">>
RANGE_CONVERT_ERROR ==
    <<"[", "R", "A", "N", "G", "E", "_", "C", "O", "N", "V", "E", "R", "T", "_", "E", "R", "R", "O", "R", "]">>
UNKNOWN_TYPE ==
    <<"[", "U", "N", "K", "N", "O", "W", "N", "_", "T", "Y", "P", "E", "]">>

(* --------------------------- Python values ----------------------------- *)
(* prim      what the object really is: none bool int float str bytes     *)
(*           memoryview num range obj                                      *)
(* isa       the classes for which isinstance(value, cls) is True          *)
(*           (the real class, and whatever a __class__ property reports)   *)
(* n, m, st  int value / identity or address; range start, stop, step      *)
(* text      characters of a str, bytes of a bytes, else the str() form    *)
(* fin       math.isfinite(value)                                          *)
(* opRaises  the branch's own operation raises (isfinite, slicing, list)   *)
(* strRaises str(value) raises;  trRaises  str(type(value)) raises         *)
(* tn        str(type(value))                                              *)
BaseValue ==
    [prim |-> "obj", isa |-> {}, n |-> 0, m |-> 0, st |-> 1, text |-> <<>>,
     fin |-> FALSE, opRaises |-> FALSE, strRaises |-> FALSE, trRaises |-> FALSE,
     tn |-> "<class 'object'>"]

(* ------------------------- normalized values --------------------------- *)
(* k: null bool int float string pair object, or RAISE when the call       *)
(* raised instead of returning                                             *)
BaseNV == [k |-> "null", n |-> 0, text |-> <<>>, tn |-> "", fin |-> TRUE]
NVNull == BaseNV
NVString(t) == [BaseNV EXCEPT !.k = "string", !.text = t]
NVPair(tname, ident) == [BaseNV EXCEPT !.k = "pair", !.tn = tname, !.n = ident]
Raised == [BaseNV EXCEPT !.k = "RAISE"]

\* "return value": the very same object
AsIs(v) ==
    IF v.prim = "none" THEN NVNull
    ELSE IF v.prim = "bool" THEN [BaseNV EXCEPT !.k = "bool", !.n = v.n]
    ELSE IF v.prim = "int" THEN [BaseNV EXCEPT !.k = "int", !.n = v.n]
    ELSE IF v.prim = "float"
         THEN [BaseNV EXCEPT !.k = "float", !.text = v.text, !.fin = v.fin]
    ELSE IF v.prim = "str" THEN NVString(v.text)
    ELSE [BaseNV EXCEPT !.k = "object", !.n = v.n, !.tn = v.tn]

\* str(value); Raised when __str__ raises
PyStr(v) ==
    IF v.strRaises THEN Raised
    ELSE IF v.prim \in {"bool", "int"} THEN NVString(IntStr(v.n))
    ELSE NVString(v.text)

\* list(range(n, m, st))
RangeLen(v) ==
    IF v.st > 0 THEN (IF v.m > v.n THEN (v.m - v.n + v.st - 1) \div v.st ELSE 0)
    ELSE (IF v.n > v.m THEN (v.n - v.m - v.st - 1) \div (0 - v.st) ELSE 0)
RangeList(v) == [i \in 1..RangeLen(v) |-> v.n + (i - 1) * v.st]

\* __safe_isinstance(value, types_)
safe_isinstance(v, classes) == (v.isa \cap classes) # {}

FloatBranch(v) ==
    \* math.isfinite raises for what is not a real number
    IF v.opRaises \/ v.prim \notin {"float", "int", "bool"} THEN PyStr(v)
    ELSE IF v.fin THEN AsIs(v) ELSE PyStr(v)

StrBranch(v) ==
    IF v.opRaises THEN NVString(STRING_ACCESS_ERROR)
    ELSE IF v.prim = "str" THEN NVString(Slice(v.text))
    \* a bytes subclass that reports str: the slice is a bytes object
    ELSE IF v.prim = "bytes" THEN [BaseNV EXCEPT !.k = "object", !.tn = v.tn]
    ELSE NVString(STRING_ACCESS_ERROR)

BytesBranch(v) ==
    IF v.opRaises \/ v.prim \notin {"bytes", "memoryview"}
    THEN NVString(BYTES_ACCESS_ERROR)
    ELSE IF v.prim = "bytes" THEN NVString(BytesStr(Slice(v.text)))
    ELSE NVString(MemStr(v.n))

NumberBranch(v) ==
    IF PyStr(v) = Raised THEN NVString(NUMBER_CONVERT_ERROR) ELSE PyStr(v)

RangeBranch(v) ==
    IF v.opRaises \/ v.prim # "range" THEN NVString(RANGE_CONVERT_ERROR)
    ELSE NVString(ListStr(Slice(RangeList(v))))

FallbackBranch(v) ==
    IF v.trRaises THEN NVPair("[UNKNOWN_TYPE]", 0) ELSE NVPair(v.tn, v.n)

convert_value(v) ==
    IF v.prim = "none" THEN NVNull
    ELSE IF safe_isinstance(v, {"bool", "int"}) THEN AsIs(v)
    ELSE IF safe_isinstance(v, {"float"}) THEN FloatBranch(v)
    ELSE IF safe_isinstance(v, {"str"}) THEN StrBranch(v)
    ELSE IF safe_isinstance(v, {"bytes", "memoryview"}) THEN BytesBranch(v)
    ELSE IF safe_isinstance(v, {"Decimal", "Fraction", "complex"}) THEN NumberBranch(v)
    ELSE IF safe_isinstance(v, {"range"}) THEN RangeBranch(v)
    ELSE FallbackBranch(v)

(* ------------------------- value constructors -------------------------- *)
VNone == [BaseValue EXCEPT !.prim = "none", !.tn = "<class 'NoneType'>"]
VBool(b) == [BaseValue EXCEPT !.prim = "bool", !.isa = {"bool", "int"},
             !.n = IF b THEN 1 ELSE 0, !.tn = "<class 'bool'>"]
VInt(i) == [BaseValue EXCEPT !.prim = "int", !.isa = {"int"}, !.n = i,
            !.fin = TRUE, !.tn = "<class 'int'>"]
VFloat(t, f) == [BaseValue EXCEPT !.prim = "float", !.isa = {"float"}, !.text = t,
                 !.fin = f, !.tn = "<class 'float'>"]
VStr(t) == [BaseValue EXCEPT !.prim = "str", !.isa = {"str"}, !.text = t,
            !.tn = "<class 'str'>"]
VBytes(bs) == [BaseValue EXCEPT !.prim = "bytes", !.isa = {"bytes"}, !.text = bs,
               !.tn = "<class 'bytes'>"]
VMemoryview(addr) == [BaseValue EXCEPT !.prim = "memoryview", !.isa = {"memoryview"},
                      !.n = addr, !.tn = "<class 'memoryview'>"]
VNum(cls, t) == [BaseValue EXCEPT !.prim = "num", !.isa = {cls}, !.text = t,
                 !.tn = "<class 'number'>"]
VRange(a, b, c) == [BaseValue EXCEPT !.prim = "range", !.isa = {"range"}, !.n = a,
                    !.m = b, !.st = c, !.tn = "<class 'range'>"]
VObj(ident, tname) == [BaseValue EXCEPT !.prim = "obj", !.n = ident, !.tn = tname,
                       !.text = <<"<", "o", "b", "j", ">">>]
\* an object whose __class__ property reports cls (unittest.mock's spec= does this)
Spoof(v, cls) == [v EXCEPT !.isa = v.isa \cup {cls}]

(* ------------------- inputs of the normalizer check -------------------- *)
TextLens == {0, 1, 2, TruncLen - 1, TruncLen} \cup (TruncLen + 1 .. TruncLen + MaxOver)
CharAlphabet == <<"a", "b", "'">>
ByteAlphabet == <<65, 0, 39, 92, 34>>
GenText(len, seed) == [i \in 1..len |-> CharAlphabet[((i + seed) % 3) + 1]]
\* seed 0 has no double quote, seed 1 has no quote at all, seed 2 has every byte
GenBytes(len, seed) ==
    [i \in 1..len |-> IF seed = 0 THEN ByteAlphabet[(i % 4) + 1]
                      ELSE IF seed = 1 THEN ByteAlphabet[((i % 2) * 3) + 1]
                      ELSE ByteAlphabet[(i % 5) + 1]]

RaiseFlags(vs, field) ==
    vs \cup { [v EXCEPT ![field] = TRUE] : v \in vs }

StrValues ==
    RaiseFlags({ VStr(GenText(l, s)) : l \in TextLens, s \in 0..MaxSeed }, "opRaises")
BytesValues ==
    RaiseFlags({ VBytes(GenBytes(l, s)) : l \in TextLens, s \in 0..MaxSeed }, "opRaises")
    \cup RaiseFlags({ VMemoryview(a) : a \in {4096, 48879} }, "opRaises")
RangeValues ==
    RaiseFlags({ VRange(a, a + l, 1) : a \in {0, 7}, l \in TextLens }
               \cup { VRange(0, 2 * l, 2) : l \in TextLens }
               \cup { VRange(5, 5 - l, 0 - 1) : l \in {0, 1, 2, 7} }, "opRaises")
ScalarValues ==
    {VNone, VBool(TRUE), VBool(FALSE), VInt(0 - 1), VInt(0), VInt(7),
     VFloat(<<"1", ".", "5">>, TRUE), VFloat(<<"n", "a", "n">>, FALSE),
     VFloat(<<"i", "n", "f">>, FALSE), VFloat(<<"-", "i", "n", "f">>, FALSE)}
NumberValues ==
    RaiseFlags({ VNum("Decimal", <<"1", ".", "5">>), VNum("Fraction", <<"1", "/", "3">>),
                 VNum("complex", <<"(", "1", "+", "2", "j", ")">>) }, "strRaises")
OtherValues ==
    RaiseFlags({ VObj(i, t) : i \in {101, 102}, t \in {"<class 'dict'>", "<class 'A'>"} },
               "trRaises")
\* objects whose __class__ property names another class
SpoofValues ==
    RaiseFlags({ Spoof(VObj(103, "<class 'Mock'>"), c) :
                   c \in {"int", "float", "str", "bytes", "Decimal", "range"} }
               \cup { Spoof(VStr(GenText(l, 0)), "float") : l \in {2, TruncLen + 1} }
               \cup { Spoof(VBytes(GenBytes(2, 0)), "str"),
                      Spoof(VBytes(GenBytes(TruncLen + 1, 0)), "str"),
                      Spoof(VStr(GenText(2, 0)), "bytes"),
                      Spoof(VNum("Fraction", <<"1", "/", "3">>), "range") },
               "strRaises")
Values ==
    ScalarValues \cup StrValues \cup BytesValues \cup RangeValues \cup NumberValues
    \cup OtherValues \cup SpoofValues

NoValue == [BaseValue EXCEPT !.prim = "unset"]
Pending == [BaseNV EXCEPT !.k = "pending"]

(* ------------------------------ objects -------------------------------- *)
(* One descriptor per object of the process: what the reflective           *)
(* primitives answer for it.                                               *)
(*  tn, trRaises      str(type(obj)) and whether it raises                 *)
(*  size, sizeRaises  sys.getsizeof(obj)                                   *)
(*  dirRaises, names  dir(obj); per name: getattr raises, or its value     *)
(*  refs              gc.get_referents(obj)                                *)
(*  srcKind           callable | typemod | instance | noclass              *)
(*  srcRaises         a step of __get_src_info raises                      *)
(*  hasCode           the code unit (__code__) was found and is truthy     *)
(*  codeName/File/Line  co_name, co_filename, co_firstlineno of the unit   *)
(*  selfName, selfFile  __name__ / __file__ of the object, its class or    *)
(*                      the module of its class                            *)
Name(t) == [name |-> t, raises |-> FALSE, val |-> VNone]
Attr(t, v) == [name |-> t, raises |-> FALSE, val |-> v]
BadAttr(t) == [name |-> t, raises |-> TRUE, val |-> VNone]

T_x == <<"x">>
T_p == <<"p">>
T_q == <<"q">>
T_big == <<"b", "i", "g">>
T_doc == <<"_", "_", "d", "o", "c", "_", "_">>
T_us == <<"_", "_">>
T_priv == <<"_", "_", "r">>
T_f == <<"f">>
T_g == <<"g">>
T_K == <<"K">>
T_a_py == <<"a", ".", "p", "y">>
T_init == <<"_", "_", "i", "n", "i", "t", "_", "_">>
T_A == <<"A">>
T_code == <<"c", "o", "d", "e">>
T_co_name == <<"c", "o", "_", "n", "a", "m", "e">>
T_co_code == <<"c", "o", "_", "c", "o", "d", "e">>

BaseObj ==
    [tn |-> "<class 'object'>", trRaises |-> FALSE, size |-> 16, sizeRaises |-> FALSE,
     dirRaises |-> FALSE, names |-> <<>>, refs |-> <<>>,
     srcKind |-> "noclass", srcRaises |-> FALSE, hasCode |-> FALSE,
     codeName |-> VNone, codeFile |-> VNone, codeLine |-> VNone,
     selfName |-> VNone, selfFile |-> VNone]

\* an exotic value: reports float, is no number, and its __str__ raises
BadFloat == [Spoof(VObj(104, "<class 'Mock'>"), "float") EXCEPT !.strRaises = TRUE]
\* a pathlib.Path stored as a module's __file__
PathValue == VObj(105, "<class 'pathlib.PosixPath'>")

CodeObj(nm, line) ==
    [BaseObj EXCEPT !.tn = "<class 'code'>", !.size = 160,
       !.names = <<Attr(T_co_code, VBytes(<<65, 0, 39>>)), Attr(T_co_name, VStr(nm)),
                   Attr(<<"c", "o", "_", "l">>, VInt(line))>>,
       !.srcKind = "instance", !.selfName = VStr(T_code)]

FunctionObj(nm, line, codeId) ==
    [BaseObj EXCEPT !.tn = "<class 'function'>", !.size = 152,
       !.names = <<Name(T_doc)>>,
       !.refs = <<VObj(codeId, "<class 'code'>"), VStr(nm)>>,
       !.srcKind = "callable", !.hasCode = TRUE, !.codeName = VStr(nm),
       !.codeFile = VStr(T_a_py), !.codeLine = VInt(line)]

Obj ==
    \* 1: an ordinary instance
    1 :> [BaseObj EXCEPT !.tn = "<class 'A'>", !.size = 48,
            !.names = <<Attr(T_doc, VStr(T_x)), Attr(T_us, VInt(1)), Attr(T_priv, VBool(TRUE)),
                        Attr(T_big, VStr(GenText(TruncLen + 1, 0))), Name(<<"n">>),
                        BadAttr(T_p), Attr(T_q, VFloat(<<"n", "a", "n">>, FALSE)),
                        Attr(T_x, VInt(5))>>,
            !.refs = <<VObj(2, "<class 'B'>"), VStr(T_x), VRange(0, 3, 1)>>,
            !.srcKind = "instance", !.hasCode = TRUE, !.codeName = VStr(T_init),
            !.codeFile = VStr(T_a_py), !.codeLine = VInt(3), !.selfName = VStr(T_A)]
    \* 2: __sizeof__ and __dir__ raise, the __module__ of its class is unhashable
    @@ 2 :> [BaseObj EXCEPT !.tn = "<class 'B'>", !.sizeRaises = TRUE, !.dirRaises = TRUE,
               !.names = <<Attr(T_x, VInt(5))>>,
               !.srcKind = "instance", !.srcRaises = TRUE, !.selfName = VStr(<<"B">>)]
    \* 3: one attribute cannot be converted; __class__ cannot be resolved
    @@ 3 :> [BaseObj EXCEPT !.tn = "<class 'C'>", !.size = 56,
               !.names = <<Attr(T_p, VInt(2)), Attr(T_q, BadFloat)>>,
               !.refs = <<VObj(1, "<class 'A'>")>>]
    \* 4: the repr of its metaclass raises
    @@ 4 :> [BaseObj EXCEPT !.tn = "<class 'D'>", !.trRaises = TRUE, !.size = 48,
               !.names = <<Attr(T_x, VInt(5))>>,
               !.srcKind = "instance", !.selfName = VStr(<<"D">>)]
    \* 5: a module whose __file__ is a Path object
    @@ 5 :> [BaseObj EXCEPT !.tn = "<class 'module'>", !.size = 72,
               !.srcKind = "typemod", !.selfName = VStr(<<"z">>), !.selfFile = PathValue]
    \* 6: module m1 with the functions 7 and 8
    @@ 6 :> [BaseObj EXCEPT !.tn = "<class 'module'>", !.size = 72,
               !.names = <<Attr(T_f, VObj(7, "<class 'function'>")),
                           Attr(T_g, VObj(8, "<class 'function'>"))>>,
               !.srcKind = "typemod", !.selfName = VStr(<<"m", "1">>),
               !.selfFile = VStr(T_a_py)]
    @@ 7 :> FunctionObj(T_f, 1, 31)
    @@ 8 :> FunctionObj(T_g, 9, 33)
    \* 9: module m2 with the class 10, whose method 11 is a copy of f
    @@ 9 :> [BaseObj EXCEPT !.tn = "<class 'module'>", !.size = 72,
               !.names = <<Attr(T_K, VObj(10, "<class 'type'>"))>>,
               !.srcKind = "typemod", !.selfName = VStr(<<"m", "2">>)]
    @@ 10 :> [BaseObj EXCEPT !.tn = "<class 'type'>", !.size = 1064,
               !.names = <<Attr(T_f, VObj(11, "<class 'function'>"))>>,
               !.srcKind = "typemod", !.selfName = VStr(T_K)]
    @@ 11 :> FunctionObj(T_f, 1, 32)
    \* code objects: 31 and 32 are equal by value, 33 is another function's
    @@ 31 :> CodeObj(T_f, 1)
    @@ 32 :> CodeObj(T_f, 1)
    @@ 33 :> CodeObj(T_g, 9)
    \* 41..: objects created while a snapshot is being taken
    @@ [i \in 41..60 |-> [BaseObj EXCEPT !.tn = "<class 'dict'>", !.size = 64,
                             !.srcKind = "instance",
                             !.selfName = VStr(<<"d", "i", "c", "t">>)]]

\* value equality of code objects (code.__eq__/__hash__); 0 is None
CodeKey == 0 :> "None" @@ 31 :> "f@1" @@ 32 :> "f@1" @@ 33 :> "g@9"

(* sys.modules: per module the names dir() lists; per name what getattr   *)
(* gives (raises, a function, a class, something else), the two lookups   *)
(* of __code__ (0 is None), and for a class the names of the class        *)
BaseMember == [raises |-> FALSE, kind |-> "other", code1 |-> 0, code2 |-> 0,
               dirRaises |-> FALSE, attrs |-> <<>>]
FuncMember(c) == [BaseMember EXCEPT !.kind = "function", !.code1 = c, !.code2 = c]
SysModules ==
    << [obj |-> 0, dirRaises |-> FALSE, members |-> <<>>],
       [obj |-> 5, dirRaises |-> TRUE, members |-> <<FuncMember(33)>>],
       [obj |-> 6, dirRaises |-> FALSE,
        members |-> <<FuncMember(31), FuncMember(33), FuncMember(31),
                      [BaseMember EXCEPT !.raises = TRUE, !.kind = "function",
                                         !.code1 = 33, !.code2 = 33]>>],
       [obj |-> 9, dirRaises |-> FALSE,
        members |-> <<[BaseMember EXCEPT !.kind = "class",
                         !.attrs = <<FuncMember(32),
                                     \* a bound method whose second lookup fails
                                     [BaseMember EXCEPT !.kind = "method",
                                                        !.code1 = 33, !.code2 = 0],
                                     BaseMember>>],
                      [BaseMember EXCEPT !.kind = "class", !.dirRaises = TRUE,
                                         !.attrs = <<FuncMember(33)>>]>>] >>

TrackedGroups == <<{1}, {2}, {3}, {4}, {5}, {6, 7, 8}, {9, 10, 11}>>

(* ----------------------- Safe Reflection Layer ------------------------- *)
\* __safe_dir(obj)
safe_dir(d) == IF d.dirRaises THEN <<>> ELSE d.names

\* __safe_getattr(obj, attr) for an entry of dir(obj)
safe_getattr(e) == IF e.raises THEN VNone ELSE e.val

\* attr_name.startswith('__') and attr_name.endswith('__')
IsDunder(t) ==
    /\ Len(t) >= 2
    /\ t[1] = "_" /\ t[2] = "_"
    /\ t[Len(t) - 1] = "_" /\ t[Len(t)] = "_"

(* ------------------------- __get_src_info ------------------------------ *)
\* {key: value for ... if value is not None}; the values are stored as found
SrcDict(nameV, fileV, lineV) ==
    LET all == [co_name |-> nameV, co_filename |-> fileV, co_lineno |-> lineV]
        keys == { k \in DOMAIN all : all[k].prim # "none" }
    IN [k \in keys |-> AsIs(all[k])]

get_src_info(d) ==
    IF d.srcRaises THEN <<>>
    ELSE IF d.srcKind = "callable"
         THEN SrcDict(d.codeName, d.codeFile, d.codeLine)
    ELSE IF d.srcKind = "typemod"
         THEN SrcDict(d.selfName, d.selfFile, VNone)
    ELSE IF d.srcKind = "instance"
         THEN IF d.hasCode THEN SrcDict(d.codeName, d.codeFile, d.codeLine)
              ELSE SrcDict(d.selfName, d.selfFile, VNone)
    ELSE <<>>

(* ----------------------- __get_object_metadata ------------------------- *)
SizePartMut(d) == IF d.sizeRaises THEN <<>> ELSE [size |-> d.size]
SizePart(d) == [size |-> IF d.sizeRaises THEN 0 ELSE d.size]

AttrPart(d) ==
    LET names == safe_dir(d)
        kept == { i \in 1..Len(names) :
                    /\ ~IsDunder(names[i].name)
                    /\ safe_getattr(names[i]).prim # "none" }
        raised == \E i \in kept : convert_value(safe_getattr(names[i])) = Raised
        valueOf(t) == LET i == CHOOSE j \in kept : names[j].name = t
                      IN convert_value(safe_getattr(names[i]))
        attrs == [t \in { names[i].name : i \in kept } |-> valueOf(t)]
    IN IF raised \/ kept = {} THEN <<>> ELSE [attr |-> attrs]

RefPart(d) ==
    LET references == d.refs
        raised == \E i \in 1..Len(references) : convert_value(references[i]) = Raised
    IN IF raised \/ references = <<>> THEN <<>>
       ELSE [ref |-> [i \in 1..Len(references) |-> convert_value(references[i])]]

SrcPart(d) ==
    LET src_info == get_src_info(d)
    IN IF DOMAIN src_info = {} THEN <<>> ELSE [src |-> src_info]

get_object_metadata(o) ==
    LET d == Obj[o]
    IN SizePart(d) @@ AttrPart(d) @@ RefPart(d) @@ SrcPart(d)

(* ------------------------- __get_code_objects -------------------------- *)
\* set.add: an element equal to one already present is not added
SetAdd(S, c) ==
    IF \E i \in 1..Len(S) : CodeKey[S[i]] = CodeKey[c] THEN S ELSE Append(S, c)

RECURSIVE SetUpdate(_, _)
SetUpdate(S, cs) ==
    IF cs = <<>> THEN S ELSE SetUpdate(SetAdd(S, Head(cs)), Tail(cs))

\* the generator of one update(): the members that pass the filter, by their
\* second lookup of __code__
Codes(members, kinds) ==
    LET passes(e) == ~e.raises /\ e.kind \in kinds /\ e.code1 # 0
        sel == SelectSeq(members, passes)
    IN [i \in 1..Len(sel) |-> sel[i].code2]

ModuleFunctionCodes(mod) ==
    IF mod.dirRaises THEN <<>> ELSE Codes(mod.members, {"function"})

ModuleMethodCodes(mod) ==
    LET isClass(e) == ~e.raises /\ e.kind = "class" /\ ~e.dirRaises
        classes == IF mod.dirRaises THEN <<>> ELSE SelectSeq(mod.members, isClass)
    IN Concat([i \in 1..Len(classes) |-> Codes(classes[i].attrs, {"function", "method"})],
              1, Len(classes))

\* code_objects.discard(None)
Discard(S, c) == LET keep(x) == x # c IN SelectSeq(S, keep)

RECURSIVE ScanModules(_, _, _)
ScanModules(S, mods, live) ==
    IF mods = <<>> THEN S
    ELSE LET mod == Head(mods)
         IN IF mod.obj = 0 \/ mod.obj \notin live
            THEN ScanModules(S, Tail(mods), live)
            ELSE ScanModules(
                   SetUpdate(SetUpdate(S, ModuleFunctionCodes(mod)), ModuleMethodCodes(mod)),
                   Tail(mods), live)

get_code_objects(live) == Discard(ScanModules(<<>>, SysModules, live), 0)

(* ----------------------------- file system ----------------------------- *)
T_json == <<".", "j", "s", "o", "n">>
P_out == <<"o", "u", "t">>
P_out_dump == <<"o", "u", "t", "/", "d", "u", "m", "p">>
P_out_dump_json == <<"o", "u", "t", "/", "d", "u", "m", "p", ".", "j", "s", "o", "n">>
P_dump == <<"d", "u", "m", "p">>
P_dump_json == <<"d", "u", "m", "p", ".", "j", "s", "o", "n">>
P_f == <<"f">>
P_f_x == <<"f", "/", "x">>
\* os.path.join('heap_dumps', 'examples'), example.py main()
FileDir == <<"h", "e", "a", "p", "_", "d", "u", "m", "p", "s", "/", "e", "x", "a", "m", "p", "l", "e", "s">>

\* os.path.join(file_dir, f'heap_dump_{counter}')
DriverPath(dir, c) ==
    dir \o <<"/">> \o <<"h", "e", "a", "p", "_", "d", "u", "m", "p", "_">> \o IntStr(c)

\* the paths other callers of the entry point pass, one caller one path
DirectPaths == {P_out_dump, P_out_dump_json, P_dump, P_f_x}

\* who takes the snapshots: example.py with its file_dir, or a caller that
\* passes the same file_name every time
Callers ==
    {[mode |-> "driver", arg |-> FileDir]}
    \cup { [mode |-> "direct", arg |-> path] : path \in DirectPaths }

CallPath(c, n) == IF c.mode = "driver" THEN DriverPath(c.arg, n) ELSE c.arg

\* file_name.endswith(suffix)
EndsWith(t, suffix) ==
    /\ Len(t) >= Len(suffix)
    /\ SubSeq(t, Len(t) - Len(suffix) + 1, Len(t)) = suffix

RECURSIVE RStripSlash(_)
RStripSlash(t) ==
    IF t # <<>> /\ t[Len(t)] = "/" THEN RStripSlash(SubSeq(t, 1, Len(t) - 1)) ELSE t

\* os.path.dirname (posixpath)
dirname(path) ==
    LET slashes == { k \in 1..Len(path) : path[k] = "/" }
        i == IF slashes = {} THEN 0 ELSE CHOOSE k \in slashes : \A l \in slashes : l <= k
        head == SubSeq(path, 1, i)
    IN IF head # <<>> /\ (\E k \in 1..Len(head) : head[k] # "/")
       THEN RStripSlash(head) ELSE head

\* the directory and its ancestors, as os.makedirs walks them
Ancestors(dir) ==
    { SubSeq(dir, 1, k) : k \in { l \in 1..Len(dir) :
                                   dir[l] # "/" /\ (l = Len(dir) \/ dir[l + 1] = "/") } }

\* file_name += '.json' unless it ends with it
NormalizeMut(path) == path \o T_json
Normalize(path) == IF EndsWith(path, T_json) THEN path ELSE path \o T_json

\* content of a file: the chunks written to it since it was last truncated
OldChunk == [part |-> "old", doc |-> <<>>]
PartialChunk == [part |-> "partial", doc |-> <<>>]
FullChunk(doc) == [part |-> "full", doc |-> doc]

\* open(file_name, 'w'): the file is created or truncated
OpenWriteMut(files, path) == IF path \in DOMAIN files THEN files ELSE (path :> <<>>) @@ files
OpenWrite(files, path) == (path :> <<>>) @@ files

\* file.write(text)
FileWrite(files, path, chunk) == [files EXCEPT ![path] = Append(files[path], chunk)]

(* ------------------------------ json.dumps ----------------------------- *)
\* what json can encode: everything the normalizer returns but a raw object
Encodable(nv) == nv.k \in {"null", "bool", "int", "float", "string", "pair"}

RecEncodable(rec) ==
    /\ "attr" \in DOMAIN rec => \A t \in DOMAIN rec.attr : Encodable(rec.attr[t])
    /\ "ref" \in DOMAIN rec => \A i \in DOMAIN rec.ref : Encodable(rec.ref[i])
    /\ "src" \in DOMAIN rec => \A k \in DOMAIN rec.src : Encodable(rec.src[k])

\* json.dumps(metadata_dict): raises TypeError on a value it cannot encode;
\* the integer keys of the inner mappings become strings
Dumps(md) ==
    IF \A t \in DOMAIN md : \A i \in DOMAIN md[t] : RecEncodable(md[t][i])
    THEN [ok |-> TRUE,
          doc |-> [t \in DOMAIN md |->
                     [key \in { IntStr(i) : i \in DOMAIN md[t] } |->
                        md[t][CHOOSE i \in DOMAIN md[t] : IntStr(i) = key]]]]
    ELSE [ok |-> FALSE, doc |-> <<>>]

(* --------------------------- __save_heap_dump -------------------------- *)
(* io names the system call the operating system refuses, if any.  The     *)
(* result says whether the call raised, where, the path returned and the   *)
(* file system it leaves.                                                  *)
SaveResult(raised, cause, tb, path, dirs, files) ==
    [raised |-> raised, cause |-> cause, tb |-> tb, file_name |-> path,
     dirs |-> dirs, files |-> files]

save_heap_dump(path, md, dirs, files, io) ==
    LET dir_name == dirname(path)
        anc == IF dir_name # <<>> THEN Ancestors(dir_name) ELSE {}
        blocked == { q \in anc : q \in DOMAIN files }
        made == { q \in anc : \A b \in blocked : Len(q) < Len(b) }
        final == Normalize(path)
        dirs1 == dirs \cup anc
        opened == OpenWrite(files, final)
        dumped == Dumps(md)
    IN IF dir_name # <<>> /\ io = "makedirs"
       THEN SaveResult(TRUE, "MakedirsError", 135, path, dirs, files)
       ELSE IF blocked # {}
       THEN SaveResult(TRUE, "MakedirsError", 135, path, dirs \cup made, files)
       ELSE IF io = "open" \/ final \in dirs1
       THEN SaveResult(TRUE, "OpenError", 140, path, dirs1, files)
       ELSE IF ~dumped.ok
       THEN SaveResult(TRUE, "SerializeError", 141, path, dirs1, opened)
       ELSE IF io = "write"
       THEN SaveResult(TRUE, "WriteError", 141, path, dirs1,
                       FileWrite(opened, final, PartialChunk))
       ELSE SaveResult(FALSE, "", 0, final, dirs1,
                       FileWrite(opened, final, FullChunk(dumped.doc)))

(* ------------------------------- state --------------------------------- *)
VARIABLES
    caller,         \* who calls collect_heap_metadata, and with what
    heap,           \* the objects gc.get_objects() would list now
    garbage,        \* those of them that gc.collect() would free
    fs_dirs,        \* the directories that exist
    fs_files,       \* the files that exist, with their content
    pc,             \* idle, ready, walk, returned, raised
    file_name,      \* collect_heap_metadata: file_name
    objects,        \* collect_heap_metadata: objects
    idx,            \* position of the for loop in objects
    metadata_dict,  \* collect_heap_metadata: metadata_dict
    result,         \* what the call returned or raised
    counter,        \* some_production_activity: counter
    log_last,       \* the last record handed to logging
    conv_in,        \* __convert_value: value
    conv_out        \* __convert_value: what it returned

vars == <<caller, heap, garbage, fs_dirs, fs_files, pc, file_name, objects, idx,
          metadata_dict, result, counter, log_last, conv_in, conv_out>>
callVars == <<caller, heap, garbage, fs_dirs, fs_files, pc, file_name, objects, idx,
              metadata_dict, result, counter, log_last>>

GroupSets == { gs \in SUBSET (1..Len(TrackedGroups)) : Cardinality(gs) <= MaxLive }
LiveSets == { UNION { TrackedGroups[g] : g \in gs } : gs \in GroupSets }
Pool == 41..(40 + MaxAlloc)
IOFailures == {"none", "makedirs", "open", "write", "getsize"}

NoResult == [kind |-> "none", file_name |-> <<>>, cause |-> "", tb |-> 0]
Returned(path) == [kind |-> "returned", file_name |-> path, cause |-> "", tb |-> 0]
\* Exception(f'Failed to save heap dump "{file_name}": {e}\n{tb}')
EnrichedMut(path, cause, tb) == [kind |-> "returned", file_name |-> path, cause |-> cause, tb |-> tb]
Enriched(path, cause, tb) == [kind |-> "raised", file_name |-> path, cause |-> cause, tb |-> tb]
NoLog == [level |-> "none", msg |-> NoResult]

RECURSIVE SortedSeq(_)
SortedSeq(S) ==
    IF S = {} THEN <<>>
    ELSE LET x == CHOOSE y \in S : \A z \in S : y <= z
         IN <<x>> \o SortedSeq(S \ {x})

Init ==
    /\ caller \in Callers
    /\ heap \in LiveSets
    /\ garbage = {}
    /\ fs_dirs = {}
    /\ fs_files = (P_f :> <<OldChunk>>) @@ (P_dump_json :> <<OldChunk>>)
    /\ pc = "idle"
    /\ file_name = <<>>
    /\ objects = <<>>
    /\ idx = 0
    /\ metadata_dict = <<>>
    /\ result = NoResult
    /\ counter = 0
    /\ log_last = NoLog
    /\ conv_in = NoValue
    /\ conv_out = Pending

(* ------------------------------ example.py ----------------------------- *)
\* do_some_work(): the objects the last snapshot left behind stay referenced
\* or become garbage
DoSomeWork ==
    /\ pc = "idle"
    /\ counter < MaxCalls
    /\ garbage' \in {{}, heap \cap Pool}
    /\ pc' = "ready"
    /\ UNCHANGED <<caller, heap, fs_dirs, fs_files, file_name, objects, idx, metadata_dict, result,
                   counter, log_last, conv_in, conv_out>>

(* ------------------------ collect_heap_metadata ------------------------ *)
\* lines 33-39: gc.collect(); objects = gc.get_objects();
\* objects.extend(cls.__get_code_objects()); metadata_dict = {}
StartCall ==
    /\ pc = "ready"
    /\ LET live == heap \ garbage
       IN /\ heap' = live
          /\ objects' = SortedSeq(live) \o get_code_objects(live)
    /\ garbage' = {}
    /\ file_name' = CallPath(caller, counter)
    /\ idx' = 1
    /\ metadata_dict' = <<>>
    /\ result' = NoResult
    /\ pc' = "walk"
    /\ UNCHANGED <<caller, fs_dirs, fs_files, counter, log_last, conv_in, conv_out>>

\* metadata_dict.setdefault(tn, {})[ident] = rec
SetDefault(md, tn, ident, rec) ==
    IF tn \in DOMAIN md THEN [md EXCEPT ![tn] = (ident :> rec) @@ md[tn]]
    ELSE (tn :> (ident :> rec)) @@ md

\* what one iteration may allocate: nothing, or the next object of the pool
Allocations(live) ==
    {{}} \cup { {o} : o \in { q \in Pool : q \notin live /\ \A r \in Pool : r < q => r \in live } }

\* lines 40-41, one iteration; the objects that extraction and normalization
\* create join the heap
Extract ==
    /\ pc = "walk"
    /\ idx <= Len(objects)
    /\ LET obj == objects[idx]
           rec == get_object_metadata(obj)
       IN IF Obj[obj].trRaises
          THEN /\ result' = Enriched(file_name, "TypeReprError", 41)
               /\ pc' = "raised"
               /\ UNCHANGED <<metadata_dict, idx>>
          ELSE /\ metadata_dict' = SetDefault(metadata_dict, Obj[obj].tn, obj, rec)
               /\ idx' = idx + 1
               /\ UNCHANGED <<result, pc>>
    /\ \E new \in Allocations(heap) : heap' = heap \cup new
    /\ UNCHANGED <<caller, garbage, fs_dirs, fs_files, file_name, objects, counter, log_last,
                   conv_in, conv_out>>

\* lines 43-54: the writer, os.path.getsize, and the message or the error
Save ==
    /\ pc = "walk"
    /\ idx > Len(objects)
    /\ \E io \in IOFailures :
         LET r == save_heap_dump(file_name, metadata_dict, fs_dirs, fs_files, io)
         IN /\ fs_dirs' = r.dirs
            /\ fs_files' = r.files
            /\ IF r.raised
               THEN /\ result' = Enriched(file_name, r.cause, r.tb)
                    /\ pc' = "raised"
                    /\ UNCHANGED file_name
               ELSE /\ file_name' = r.file_name
                    /\ IF io = "getsize"
                       THEN /\ result' = Enriched(r.file_name, "SizeError", 44)
                            /\ pc' = "raised"
                       ELSE /\ result' = Returned(r.file_name)
                            /\ pc' = "returned"
    /\ UNCHANGED <<caller, heap, garbage, objects, idx, metadata_dict, counter, log_last,
                   conv_in, conv_out>>

(* ------------------------------ example.py ----------------------------- *)
\* the locals of the call are gone once it has returned or raised
EndIteration ==
    /\ pc' = "idle"
    /\ counter' = counter + 1
    /\ file_name' = <<>>
    /\ objects' = <<>>
    /\ idx' = 0
    /\ metadata_dict' = <<>>
    /\ result' = NoResult
    /\ UNCHANGED <<caller, heap, garbage, fs_dirs, fs_files, conv_in, conv_out>>

\* lines 33-35, 39-40: logging.info(message); counter += 1
LogInfo ==
    /\ pc = "returned"
    /\ log_last' = [level |-> "info", msg |-> result]
    /\ EndIteration

\* lines 36-40: except Exception as e: logging.error(e); counter += 1
LogError ==
    /\ pc = "raised"
    /\ log_last' = [level |-> "error", msg |-> result]
    /\ EndIteration

Next ==
    \/ DoSomeWork
    \/ StartCall
    \/ Extract
    \/ Save
    \/ LogInfo
    \/ LogError

Spec == Init /\ [][Next]_vars

(* --------------------- the normalizer, on its own ---------------------- *)
ConvInit ==
    /\ caller = [mode |-> "driver", arg |-> FileDir]
    /\ heap = {} /\ garbage = {} /\ fs_dirs = {} /\ fs_files = (P_f :> <<OldChunk>>)
    /\ pc = "idle" /\ file_name = <<>> /\ objects = <<>> /\ idx = 0
    /\ metadata_dict = <<>> /\ result = NoResult /\ counter = 0 /\ log_last = NoLog
    /\ conv_in \in Values
    /\ conv_out = Pending

\* one call of HeapDumper.__convert_value(value)
Convert ==
    /\ conv_out = Pending
    /\ conv_out' = convert_value(conv_in)
    /\ UNCHANGED <<conv_in, callVars>>

ConvNext == Convert
ConvSpec == ConvInit /\ [][ConvNext]_vars

(* ======================================================================= *)
(*                               properties                                *)
(* ======================================================================= *)
Range(f) == { f[x] : x \in DOMAIN f }
Records == { <<t, i>> \in (DOMAIN metadata_dict) \X (DOMAIN Obj) : i \in DOMAIN metadata_dict[t] }
CallEnded == pc \in {"returned", "raised"}
\* the destination after extension normalization, written out from the claim
ExpectedFinal ==
    LET arg == CallPath(caller, counter)
    IN IF EndsWith(arg, T_json) THEN arg ELSE arg \o T_json

(* C1: for every object of the enumerated list, also one whose size        *)
(* measurement, attribute enumeration or attribute lookups raise, the      *)
(* extractor returns a record and the walk goes on to the next object:     *)
(* when the call ends, every enumerated object has its record, with        *)
(* size = 0 where the measurement failed.                                  *)
C1_EveryObjectRecorded ==
    CallEnded =>
      \A k \in 1..Len(objects) :
        LET o == objects[k]
        IN /\ Obj[o].tn \in DOMAIN metadata_dict
           /\ o \in DOMAIN metadata_dict[Obj[o].tn]
           /\ Obj[o].sizeRaises => metadata_dict[Obj[o].tn][o].size = 0

(* C2: a call ends either with a success message that carries the final    *)
(* path, after the snapshot was written in full, or with one enriched      *)
(* error that carries the cause and the stack trace; it never returns a    *)
(* failure string; and after an error the driver logs it, counts the       *)
(* iteration and is back at the top of its loop.                           *)
C2_OutcomeInv ==
    /\ CallEnded <=> result.kind # "none"
    /\ result.kind = "returned" =>
         /\ pc = "returned"
         /\ result.cause = "" /\ result.tb = 0
         /\ result.file_name = ExpectedFinal
         /\ Dumps(metadata_dict).ok
         /\ result.file_name \in DOMAIN fs_files
         /\ fs_files[result.file_name] # <<>>
         /\ fs_files[result.file_name][Len(fs_files[result.file_name])]
              = FullChunk(Dumps(metadata_dict).doc)
    /\ result.kind = "raised" =>
         /\ pc = "raised"
         /\ result.cause \in {"TypeReprError", "MakedirsError", "OpenError",
                              "SerializeError", "WriteError", "SizeError"}
         /\ result.tb \in {41, 44, 135, 140, 141}
C2_DriverStep ==
    pc = "raised" =>
      /\ pc' = "idle"
      /\ counter' = counter + 1
      /\ log_last' = [level |-> "error", msg |-> result]
Truncatable(v) == v.prim \in {"str", "bytes", "memoryview", "range"}
Genuine(v) == v.isa = {v.prim}
Commas(t) == Cardinality({ i \in 1..Len(t) : t[i] = "," })
FirstMatch(v) ==
    IF v.prim = "none" THEN "null"
    ELSE IF v.isa \cap {"bool", "int"} # {} THEN "int"
    ELSE IF "float" \in v.isa THEN "float"
    ELSE IF "str" \in v.isa THEN "str"
    ELSE IF v.isa \cap {"bytes", "memoryview"} # {} THEN "bytes"
    ELSE IF v.isa \cap {"Decimal", "Fraction", "complex"} # {} THEN "number"
    ELSE IF "range" \in v.isa THEN "range"
    ELSE "other"
First1000(t) == [i \in 1..(IF Len(t) < 1000 THEN Len(t) ELSE 1000) |-> t[i]]
Sentinels ==
    {NVString(STRING_ACCESS_ERROR), NVString(BYTES_ACCESS_ERROR),
     NVString(NUMBER_CONVERT_ERROR), NVString(RANGE_CONVERT_ERROR),
     NVPair("[UNKNOWN_TYPE]", 0)}
ReferenceOK(v, out) ==
    LET b == FirstMatch(v)
    IN /\ out.k # "RAISE"
       /\ b = "null" => out = NVNull
       /\ b = "int" => out = AsIs(v)
       /\ b = "float" =>
            IF v.opRaises \/ v.prim \notin {"float", "int", "bool"} THEN out \in Sentinels
            ELSE IF v.fin THEN out = AsIs(v)
            ELSE out.k = "string" /\ out.text = v.text
       /\ b = "str" =>
            IF v.opRaises \/ v.prim # "str" THEN out = NVString(STRING_ACCESS_ERROR)
            ELSE out = NVString(First1000(v.text))
       /\ b = "bytes" =>
            IF v.opRaises \/ v.prim \notin {"bytes", "memoryview"}
            THEN out = NVString(BYTES_ACCESS_ERROR)
            ELSE IF v.prim = "bytes" THEN out = NVString(BytesStr(First1000(v.text)))
            ELSE out = NVString(MemStr(v.n))
       /\ b = "number" =>
            IF v.strRaises THEN out = NVString(NUMBER_CONVERT_ERROR)
            ELSE out = NVString(v.text)
       /\ b = "range" =>
            IF v.opRaises \/ v.prim # "range" THEN out = NVString(RANGE_CONVERT_ERROR)
            ELSE out = NVString(ListStr(First1000(RangeList(v))))
       /\ b = "other" =>
            IF v.trRaises THEN out = NVPair("[UNKNOWN_TYPE]", 0)
            ELSE out = NVPair(v.tn, v.n)
C4_ReferenceDispatch == conv_out # Pending => ReferenceOK(conv_in, conv_out)

(* C5: the list one snapshot walks is de-duplicated by identity: no        *)
(* identity occurs twice in it, and every code object the secondary scan   *)
(* finds is kept, two distinct code objects both.                          *)
ScanFound(live) ==
    UNION { Range(ModuleFunctionCodes(SysModules[m])) \cup Range(ModuleMethodCodes(SysModules[m])) :
              m \in { k \in 1..Len(SysModules) : SysModules[k].obj \in live } } \ {0}
C5_IdentityDedup ==
    pc = "walk" =>
      /\ \A i, j \in 1..Len(objects) : objects[i] = objects[j] => i = j
      /\ ScanFound(heap) \subseteq Range(objects)

(* C6: every record has the key size, a non-negative integer; attr, ref    *)
(* and src are present only when non-empty; ref holds one normalized value *)
(* per direct reference, in the order of gc.get_referents.                 *)
RecordShapeOK(o, rec) ==
    /\ "size" \in DOMAIN rec
    /\ rec.size \in Nat
    /\ DOMAIN rec \subseteq {"size", "attr", "ref", "src"}
    /\ "attr" \in DOMAIN rec => DOMAIN rec.attr # {}
    /\ "src" \in DOMAIN rec => DOMAIN rec.src # {}
    /\ "ref" \in DOMAIN rec =>
         /\ Len(rec.ref) > 0
         /\ Len(rec.ref) = Len(Obj[o].refs)
         /\ \A k \in 1..Len(rec.ref) : rec.ref[k] = convert_value(Obj[o].refs[k])
C6_RecordShape ==
    \A r \in Records : RecordShapeOK(r[2], metadata_dict[r[1]][r[2]])
\* one snapshot holds a record with nothing but size = 0 and a record with
\* all four keys
C6_Witness ==
    /\ \E r \in Records : metadata_dict[r[1]][r[2]] = [size |-> 0]
    /\ \E r \in Records : DOMAIN metadata_dict[r[1]][r[2]] = {"size", "attr", "ref", "src"}

(* C7: the file is written at the path itself when it ends with '.json'    *)
(* and at path + '.json' otherwise; the parent directory and its ancestors *)
(* exist after the call when the path has a directory part; the path       *)
(* returned is the path of the file that was written, and no other file    *)
(* was touched.                                                            *)
C7_Inv ==
    pc = "returned" =>
      LET arg == CallPath(caller, counter)
      IN /\ result.file_name = ExpectedFinal
         /\ result.file_name \in DOMAIN fs_files
         /\ dirname(arg) # <<>> => Ancestors(dirname(arg)) \subseteq fs_dirs
         /\ arg = P_out_dump => (result.file_name = P_out_dump_json /\ P_out \in fs_dirs)
         /\ arg = P_out_dump_json => result.file_name = P_out_dump_json
C7_WriteStep ==
    (pc = "walk" /\ pc' = "returned") =>
      /\ fs_files'[result'.file_name] # <<>>
      /\ \A p \in DOMAIN fs_files' :
           p # result'.file_name => (p \in DOMAIN fs_files /\ fs_files'[p] = fs_files[p])
C7_PathContract == [](C7_Inv) /\ [][C7_WriteStep]_vars
\* 'out/dump' was written as 'out/dump.json', and 'out' did not exist before
C7_Witness ==
    /\ pc = "returned" /\ counter = 0
    /\ caller.arg = P_out_dump
    /\ result.file_name = P_out_dump_json
    /\ P_out \in fs_dirs

(* C8: after two successive successful calls with the same destination,    *)
(* the file at the final path holds exactly the snapshot of the second     *)
(* call, and that snapshot holds records of the objects of the second      *)
(* call only; every call starts from an empty mapping.                     *)
C8_Overwrite ==
    /\ (pc = "walk" /\ idx = 1) => metadata_dict = <<>>
    /\ (pc = "returned" /\ log_last.level = "info"
          /\ log_last.msg.file_name = result.file_name) =>
         /\ fs_files[result.file_name] = <<FullChunk(Dumps(metadata_dict).doc)>>
         /\ \A r \in Records : r[2] \in Range(objects)
\* the second call succeeded on the path of the first, with another snapshot
C8_Witness ==
    /\ pc = "returned" /\ log_last.level = "info"
    /\ log_last.msg.file_name = result.file_name
    /\ 41 \in Range(objects)

(* C9: the object list is fixed before the first extraction and objects    *)
(* created while extracting are never added to it, so the walk performs    *)
(* exactly one extraction per entry of the list and then reaches the write *)
(* step: when the call has ended, the loop has passed the last entry and   *)
(* the snapshot holds one record per distinct entry.                       *)
C9_WalkReachesWrite ==
    CallEnded =>
      /\ idx = Len(objects) + 1
      /\ Cardinality(Records) = Cardinality(Range(objects))

(* C10: every value of every record that reaches the writer is             *)
(* serialization-safe: null, boolean, integer, finite float, string or a   *)
(* [string, integer] pair; for size, attr, ref and src alike.              *)
SerializationSafe(nv) ==
    \/ nv.k \in {"null", "bool", "int", "string", "pair"}
    \/ nv.k = "float" /\ nv.fin
RecordSafe(rec) ==
    /\ rec.size \in Int
    /\ "attr" \in DOMAIN rec => \A t \in DOMAIN rec.attr : SerializationSafe(rec.attr[t])
    /\ "ref" \in DOMAIN rec => \A i \in DOMAIN rec.ref : SerializationSafe(rec.ref[i])
    /\ "src" \in DOMAIN rec => \A k \in DOMAIN rec.src : SerializationSafe(rec.src[k])
C10_SerializationSafe ==
    (pc = "walk" /\ idx > Len(objects)) =>
      \A r \in Records : RecordSafe(metadata_dict[r[1]][r[2]])

====
